---- MODULE Spec2Model ----
(***************************************************************************)
(* A model of the gocache storage engine: the sharded map of              *)
(* GoCacheUsecase (Set / Get / Delete / loadFromDisk and the expiration    *)
(* checker), the TimeWheel that calls back into Delete, the AsyncAOFWriter *)
(* fed by a bounded channel, and cacheRepo.CleanupAOF, the log compaction. *)
(*                                                                         *)
(* Time is time.Now().Unix(), whole seconds.  Every goroutine is a process *)
(* whose position is a variable; a lock is held exactly while a process is *)
(* at a position between its Lock and its Unlock.                          *)
(***************************************************************************)
EXTENDS Integers, Sequences, FiniteSets, Bags, TLC

----------------------------------------------------------------------------
(* Bounds of the model.                                                    *)

\* Concurrent callers of the store (RPC handlers).
NumClients == 2
\* Caller Set/Delete operations issued over a run.
MaxOps == 2
\* The clock's first value (a Unix time is positive) and its last.
StartTime == 1
MaxTime == 3
\* Largest ttl, in seconds, a caller passes to Set.
MaxTTL == 1
\* Process restarts in a run.
MaxRestarts == 1
\* Scaled program sizes: NewTimeWheel(60, ...) slots, the 30 s
\* defaultSaveInterval in ticks of the clock, the channel capacity 1000.
Slots == 2
SaveInterval == 2
QueueCap == 2

----------------------------------------------------------------------------
(* Keys, values, shards.                                                   *)

\* A key is the sequence of its UTF-8 bytes: "a" and "b".
KeyA == <<97>>
KeyB == <<98>>
Keys == {KeyA, KeyB}
\* Values are opaque to the store (never inspected, only stored, logged and
\* returned), so the i-th caller operation writes the value i: two Sets
\* never write the same value and an overwrite always shows.
Values == 1..MaxOps
TTLs == 0..MaxTTL

numShards == 32

\* Bitwise exclusive or of two naturals.
RECURSIVE Xor(_, _)
Xor(a, b) ==
    IF a = 0 THEN b
    ELSE IF b = 0 THEN a
    ELSE (((a % 2) + (b % 2)) % 2) + 2 * Xor(a \div 2, b \div 2)

\* hash/fnv New32a: a 32-bit word kept as <<high 16 bits, low 16 bits>>;
\* offset basis 0x811c9dc5, prime 0x01000193, h = (h XOR byte) * prime.
RECURSIVE fnvFold(_, _, _)
fnvFold(key, i, h) ==
    IF i > Len(key) THEN h
    ELSE LET lo == Xor(h[2], key[i])
             p  == lo * 403
         IN  fnvFold(key, i + 1,
                     << (h[1] * 403 + lo * 256 + (p \div 65536)) % 65536,
                        p % 65536 >>)

fnv32(key) == fnvFold(key, 1, <<33052, 40389>>)

\* hash % numShards: the low 16 bits decide, numShards divides 2^16.
shardIndex == [k \in Keys |-> fnv32(k)[2] % numShards]

getShard(key) == shardIndex[key]

\* The shards that can hold a key of the model, in the order of c.shards.
RECURSIVE SortedSeq(_)
SortedSeq(S) ==
    IF S = {} THEN <<>>
    ELSE LET m == CHOOSE x \in S : \A y \in S : x <= y
         IN  <<m>> \o SortedSeq(S \ {m})

UsedShards == SortedSeq({getShard(k) : k \in Keys})

----------------------------------------------------------------------------
(* Entries and commands.                                                   *)

\* CacheItem; NoItem stands for "not in the map".
NoItem == [Value |-> 0, ExpiresAt |-> -1]
CacheItem(v, e) == [Value |-> v, ExpiresAt |-> e]

SetCmd(k, v, e) == <<"SET", k, v, e>>
DelCmd(k) == <<"DEL", k>>
CmdKey(cmd) == cmd[2]

\* A queued or written command.  aid and eid number the operation in the
\* order it was applied to the shard map and in the order it was enqueued;
\* enc is the gob Encoder that wrote the record.  aid and eid are
\* bookkeeping of the model, enc is the stream the record belongs to.
Rec(cmd, aid, eid) == [cmd |-> cmd, aid |-> aid, eid |-> eid, enc |-> 0]

\* What Get returns: ("", ErrKeyNotFound) or (value, nil).
NotFound == <<0, "ErrKeyNotFound">>
Found(v) == <<v, "nil">>
NoKey == <<>>

VARIABLES
    now,        \* time.Now().Unix()
    data,       \* shards[getShard(k)].active.Data[k], for every key
    slots,      \* TimeWheel.slots: per slot, key -> Unix time (-1: absent)
    index,      \* TimeWheel.index
    queue,      \* AsyncAOFWriter.queue
    file,       \* the records of cache.aof
    encOpen,    \* whether the *os.File the writer's encoder holds is open
    cl,         \* the calls in progress: a bag of positions and locals
    wheel,      \* the TimeWheel.run goroutine: position and locals
    sweep,      \* the startExpirationChecker goroutine and CleanupAOF
    tickers,    \* pending ticks of the two time.Tickers
    hist        \* bookkeeping: nApp operations applied to the map, nEnq
                \* records enqueued, nOps caller operations, restarts,
                \* compactions renamed in this process, per key the last
                \* caller operation of this process and (recov) of the
                \* process before, owedFrom the records enqueued before
                \* those the first compaction found still queued, E the
                \* expired keys a caller of CleanupAOF passes

vars == <<now, data, slots, index, queue, file, encOpen, cl, wheel, sweep,
          tickers, hist>>

----------------------------------------------------------------------------
(* Locks.  sync.RWMutex of a shard and the wheel's sync.Mutex are held     *)
(* exactly at the positions between Lock and Unlock.                       *)

\* shard.mu is write-locked: a caller inside Set or Delete, or the wheel
\* inside the Delete it calls.
WLocked(s) ==
    \/ \E c \in BagToSet(cl) :
          /\ c.pc \in {"set_add", "set_write", "del_write"}
          /\ getShard(c.key) = s
    \/ wheel.pc = "del_write" /\ getShard(wheel.key) = s

\* shard.mu is read-locked: a caller inside Get.
RLocked(s) ==
    \E c \in BagToSet(cl) : c.pc = "get_del" /\ getShard(c.key) = s

CanLock(s) == ~WLocked(s) /\ ~RLocked(s)
CanRLock(s) == ~WLocked(s)

\* tw.mutex is held by run from the tick to the end of its loop.
WheelMutexFree == wheel.pc = "idle"

----------------------------------------------------------------------------
(* Initial state: a first start on an empty cache.aof.                     *)

\* A call in progress: its position and its locals.  Callers are
\* goroutines without identity, so the calls in progress are a bag.
Call(pc, k, v, d, e, id) ==
    [pc |-> pc, key |-> k, value |-> v, ttl |-> d, exp |-> e, aid |-> id]

\* The bag b with call c moved on to c2, or returned.
Step(b, c, c2) == (b (-) SetToBag({c})) (+) SetToBag({c2})
Return(b, c) == b (-) SetToBag({c})

IdleWheel == [pc |-> "idle", now |-> 0, key |-> NoKey, aid |-> 0]

IdleSweep ==
    [pc |-> "idle", i |-> 0, expiredKeys |-> <<>>, temp |-> <<>>,
     offset |-> 0, startEid |-> 0]

NoOp == [kind |-> "none", id |-> 0, value |-> 0, t0 |-> 0, ttl |-> 0,
         done |-> FALSE]

EmptySlots == [i \in 0..(Slots - 1) |-> [k \in Keys |-> -1]]

Init ==
    /\ now = StartTime
    /\ data = [k \in Keys |-> NoItem]
    /\ slots = EmptySlots
    /\ index = 0
    /\ queue = <<>>
    /\ file = <<>>
    /\ encOpen = TRUE
    /\ cl = EmptyBag
    /\ wheel = IdleWheel
    /\ sweep = IdleSweep
    /\ tickers = [wheel |-> FALSE, sweep |-> FALSE, since |-> 0]
    /\ hist = [nApp |-> 0, nEnq |-> 0, nOps |-> 0, restarts |-> 0,
               compactions |-> 0,
               last |-> [k \in Keys |-> NoOp],
               recov |-> [k \in Keys |-> NoOp],
               owedFrom |-> 0, E |-> <<>>]

----------------------------------------------------------------------------
(* The store: Set, Get, Delete.                                            *)

\* time.Now().Add(ttl).Unix() for ttl > 0, else 0.
ExpiresAtOf(ttl, t) == IF ttl > 0 THEN t + ttl ELSE 0

\* shard.active.Data[key] = entry
MapStore(d, k, item) == [d EXCEPT ![k] = item]

\* A delete that leaves the entry in the map.
MapDeleteKeeps(d, k) == d

\* delete(shard.active.Data, key)
MapDelete(d, k) == [d EXCEPT ![k] = NoItem]

\* A queue that hands out the newest command first.
WriteLifo(q, r) == <<r>> \o q

\* aw.queue <- command
Write(q, r) == Append(q, r)

\* A caller is free to start a call.
Ready == BagCardinality(cl) < NumClients

\* Set up to the store into the map: Lock, the entry, Data[key] = entry.
Set_lock(k, v, d) ==
    /\ Ready
    /\ hist.nOps < MaxOps
    /\ v = hist.nOps + 1
    /\ CanLock(getShard(k))
    /\ LET e == ExpiresAtOf(d, now)
           id == hist.nApp + 1
       IN  /\ data' = MapStore(data, k, CacheItem(v, e))
           /\ cl' = cl (+) SetToBag({Call("set_add", k, v, d, e, id)})
           /\ hist' = [hist EXCEPT !.nApp = id, !.nOps = @ + 1,
                          !.last[k] = [kind |-> "set", id |-> id, value |-> v,
                                       t0 |-> now, ttl |-> d,
                                       done |-> FALSE]]
    /\ UNCHANGED <<now, slots, index, queue, file, encOpen, wheel, sweep,
                   tickers>>

\* TimeWheel.Add(key, expiration): the slot and the Unix time it stores.
SlotIndex(idx, ttl) == (idx + ttl) % Slots
Add(sl, idx, k, ttl, t) == [sl EXCEPT ![SlotIndex(idx, ttl)][k] = t + ttl]

\* Set, c.timeWheel.Add(key, ttl) with the shard lock held.
Set_add(c) ==
    /\ c.pc = "set_add"
    /\ WheelMutexFree
    /\ slots' = Add(slots, index, c.key, c.ttl, now)
    /\ cl' = Step(cl, c, [c EXCEPT !.pc = "set_write"])
    /\ UNCHANGED <<now, data, index, queue, file, encOpen, wheel, sweep,
                   tickers, hist>>

\* The bookkeeping of one more enqueued record.
Enqueued(h, k, id) ==
    [h EXCEPT !.nEnq = @ + 1,
              !.last[k].done = IF h.last[k].id = id THEN TRUE ELSE @]

\* Set, c.repo.Write(SET key value ExpiresAt), Unlock, return.
Set_write(c) ==
    /\ c.pc = "set_write"
    /\ Len(queue) < QueueCap
    /\ queue' = Write(queue, Rec(SetCmd(c.key, c.value, c.exp), c.aid,
                                 hist.nEnq + 1))
    /\ hist' = Enqueued(hist, c.key, c.aid)
    /\ cl' = Return(cl, c)
    /\ UNCHANGED <<now, data, slots, index, file, encOpen, wheel, sweep,
                   tickers>>

\* Delete: Lock, delete(Data, key).
Delete_lock(k) ==
    /\ Ready
    /\ hist.nOps < MaxOps
    /\ CanLock(getShard(k))
    /\ LET id == hist.nApp + 1
       IN  /\ data' = MapDelete(data, k)
           /\ cl' = cl (+) SetToBag({Call("del_write", k, 0, 0, 0, id)})
           /\ hist' = [hist EXCEPT !.nApp = id, !.nOps = @ + 1,
                          !.last[k] = [NoOp EXCEPT !.kind = "del", !.id = id,
                                                   !.t0 = now]]
    /\ UNCHANGED <<now, slots, index, queue, file, encOpen, wheel, sweep,
                   tickers>>

\* Delete: c.repo.Write(DEL key), Unlock, return.
Delete_write(c) ==
    /\ c.pc = "del_write"
    /\ Len(queue) < QueueCap
    /\ queue' = Write(queue, Rec(DelCmd(c.key), c.aid, hist.nEnq + 1))
    /\ hist' = Enqueued(hist, c.key, c.aid)
    /\ cl' = Return(cl, c)
    /\ UNCHANGED <<now, data, slots, index, file, encOpen, wheel, sweep,
                   tickers>>

\* Get's test of the entry it read: expiry < time.Now().Unix().
GetExpired(item, t) == item.ExpiresAt < t

\* What Get(key) returns to a caller that runs it at time t on map d.
Get(d, k, t) ==
    IF d[k] = NoItem THEN NotFound
    ELSE IF GetExpired(d[k], t) THEN NotFound
    ELSE Found(d[k].Value)

\* Get: RLock, the lookup and the test.  A missing or a live entry is
\* answered at once (RUnlock, return Get(data, k, now)) and nothing
\* changes; an expired one is deleted in Get_delete.
Get_read(k) ==
    /\ Ready
    /\ CanRLock(getShard(k))
    /\ cl' = IF data[k] # NoItem /\ GetExpired(data[k], now)
             THEN cl (+) SetToBag({Call("get_del", k, 0, 0, 0, 0)})
             ELSE cl
    /\ UNCHANGED <<now, data, slots, index, queue, file, encOpen, wheel,
                   sweep, tickers, hist>>

\* Get: delete(shard.active.Data, key) with the read lock held, RUnlock,
\* return ErrKeyNotFound.
Get_delete(c) ==
    /\ c.pc = "get_del"
    /\ data' = MapDelete(data, c.key)
    /\ cl' = Return(cl, c)
    /\ UNCHANGED <<now, slots, index, queue, file, encOpen, wheel, sweep,
                   tickers, hist>>

----------------------------------------------------------------------------
(* The clock and the two tickers.                                          *)

\* A goroutine that waits on its ticker takes a tick within the second;
\* a tick is left pending only while the goroutine is busy or blocked.
TicksTaken ==
    /\ tickers.wheel => wheel.pc # "idle"
    /\ tickers.sweep => sweep.pc # "idle"

\* A second passes: the wheel's ticker fires, and every SaveInterval
\* seconds the expiration checker's.  A ticker keeps at most one tick.
Clock ==
    /\ now < MaxTime
    /\ TicksTaken
    /\ now' = now + 1
    /\ tickers' = [wheel |-> TRUE,
                   sweep |-> tickers.sweep \/ tickers.since + 1 = SaveInterval,
                   since |-> (tickers.since + 1) % SaveInterval]
    /\ UNCHANGED <<data, slots, index, queue, file, encOpen, cl, wheel,
                   sweep, hist>>

----------------------------------------------------------------------------
(* AsyncAOFWriter.writeLoop.                                               *)

\* encoder.Encode(command) on the file the encoder was made for: appended
\* by the encoder of this process when that file is open, an error (logged,
\* the record dropped) when CleanupAOF has closed it.
Encode(f, r, open, stream) ==
    IF open THEN Append(f, [r EXCEPT !.enc = stream]) ELSE f

\* One iteration of writeLoop: receive, Encode, Sync.  The append moves
\* the offset of the descriptor CleanupAOF reads through to the end of file.
writeLoop ==
    /\ queue # <<>>
    /\ queue' = Tail(queue)
    /\ file' = Encode(file, Head(queue), encOpen, hist.restarts)
    /\ sweep' = IF encOpen /\ sweep.pc = "compact"
                THEN [sweep EXCEPT !.offset = Len(file')]
                ELSE sweep
    /\ UNCHANGED <<now, data, slots, index, encOpen, cl, wheel, tickers,
                   hist>>

----------------------------------------------------------------------------
(* TimeWheel.run.                                                          *)

\* The keys of a slot the loop of run deletes: now > expiresAt.
Due(sl, idx, t) == {k \in Keys : sl[idx][k] # -1 /\ t > sl[idx][k]}

\* A tick: tw.mutex.Lock, the index advances, now is read once.  With
\* nothing due in the new slot the loop is empty and the mutex released.
run_tick ==
    /\ tickers.wheel
    /\ wheel.pc = "idle"
    /\ index' = (index + 1) % Slots
    /\ tickers' = [tickers EXCEPT !.wheel = FALSE]
    /\ wheel' = IF Due(slots, index', now) = {}
                THEN IdleWheel
                ELSE [IdleWheel EXCEPT !.pc = "ticking", !.now = now]
    /\ UNCHANGED <<now, data, slots, queue, file, encOpen, cl, sweep, hist>>

\* The loop body for a due key: delete(tw.slots[tw.index], key), then
\* tw.cache.Delete(ctx, key) up to its delete from the map.
run_delete(k) ==
    /\ wheel.pc = "ticking"
    /\ k \in Due(slots, index, wheel.now)
    /\ CanLock(getShard(k))
    /\ slots' = [slots EXCEPT ![index][k] = -1]
    /\ data' = MapDelete(data, k)
    /\ wheel' = [wheel EXCEPT !.pc = "del_write", !.key = k,
                              !.aid = hist.nApp + 1]
    /\ hist' = [hist EXCEPT !.nApp = @ + 1]
    /\ UNCHANGED <<now, index, queue, file, encOpen, cl, sweep, tickers>>

\* The rest of that Delete: c.repo.Write(DEL key), Unlock; the loop goes
\* on, and with no due key left run releases tw.mutex.
run_write ==
    /\ wheel.pc = "del_write"
    /\ Len(queue) < QueueCap
    /\ queue' = Write(queue, Rec(DelCmd(wheel.key), wheel.aid, hist.nEnq + 1))
    /\ hist' = [hist EXCEPT !.nEnq = @ + 1]
    /\ wheel' = IF Due(slots, index, wheel.now) = {}
                THEN IdleWheel
                ELSE [IdleWheel EXCEPT !.pc = "ticking", !.now = wheel.now]
    /\ UNCHANGED <<now, data, slots, index, file, encOpen, cl, sweep,
                   tickers>>

----------------------------------------------------------------------------
(* startExpirationChecker: collectExpiredKeys, cleanupMemory, CleanupAOF.  *)

\* collectExpiredKeys' test of an entry.
CollectExpired(item, t) == item.ExpiresAt > 0 /\ t > item.ExpiresAt

\* The sequences that list the elements of S once each (a map's range
\* order).
Orders(S) ==
    {q \in [1..Cardinality(S) -> S] : \A x \in S : \E i \in DOMAIN q : q[i] = x}

\* The expired keys of shard s, in one of the orders a range over the
\* map can give.
ScanShard(d, s, t) ==
    Orders({k \in Keys : getShard(k) = s /\ d[k] # NoItem
                         /\ CollectExpired(d[k], t)})

\* The lists collectExpiredKeys can return: shard after shard from
\* shards[i] on, appended to keys.
RECURSIVE Collect(_, _, _, _)
Collect(d, i, t, keys) ==
    IF i > Len(UsedShards) THEN {keys}
    ELSE UNION {Collect(d, i + 1, t, keys \o q) :
                    q \in ScanShard(d, UsedShards[i], t)}

\* <-c.ticker.C and collectExpiredKeys: every shard is scanned under its
\* read lock (RLock, range, RUnlock, one shard at a time; the model takes
\* the scans at one instant, at which no shard is write-locked).  An empty
\* list ends the pass.
collectExpiredKeys ==
    /\ tickers.sweep
    /\ sweep.pc = "idle"
    /\ \A i \in DOMAIN UsedShards : CanRLock(UsedShards[i])
    /\ tickers' = [tickers EXCEPT !.sweep = FALSE]
    /\ \E keys \in Collect(data, 1, now, <<>>) :
          sweep' = IF keys = <<>>
                   THEN IdleSweep
                   ELSE [IdleSweep EXCEPT !.pc = "cleanup", !.i = 1,
                                          !.expiredKeys = keys]
    /\ UNCHANGED <<now, data, slots, index, queue, file, encOpen, cl, wheel,
                   hist>>

\* cleanupMemory's statement under the shard lock.
CleanupDelete(d, k, t) == MapDelete(d, k)

\* cleanupMemory, one key: Lock, delete(Data, key), Unlock.
cleanupMemory ==
    /\ sweep.pc = "cleanup"
    /\ LET k == sweep.expiredKeys[sweep.i]
       IN  /\ CanLock(getShard(k))
           /\ data' = CleanupDelete(data, k, now)
    /\ sweep' = IF sweep.i < Len(sweep.expiredKeys)
                THEN [sweep EXCEPT !.i = @ + 1]
                ELSE [sweep EXCEPT !.pc = "open", !.i = 0]
    /\ UNCHANGED <<now, slots, index, queue, file, encOpen, cl, wheel,
                   tickers, hist>>

\* The keys of the list, expiredKeySet.
KeySet(keys) == {keys[i] : i \in DOMAIN keys}

\* A copy loop that leaves the loop before it has handled the last
\* command it decoded.
RECURSIVE FilterCommandsEarly(_, _)
FilterCommandsEarly(recs, E) ==
    IF Len(recs) <= 1 THEN <<>>
    ELSE LET r == Head(recs)
             keep == \/ Len(r.cmd) = 4 /\ r.cmd[1] = "SET" /\ r.cmd[2] \notin E
                     \/ Len(r.cmd) = 2 /\ r.cmd[1] = "DEL" /\ r.cmd[2] \notin E
         IN  (IF keep THEN <<r>> ELSE <<>>)
                 \o FilterCommandsEarly(Tail(recs), E)

\* CleanupAOF's copy loop on decoded commands: a SET or a DEL is kept
\* unless its key is expired; anything else is dropped.
RECURSIVE FilterCommands(_, _)
FilterCommands(recs, E) ==
    IF recs = <<>> THEN <<>>
    ELSE LET r == Head(recs)
             keep == \/ Len(r.cmd) = 4 /\ r.cmd[1] = "SET" /\ r.cmd[2] \notin E
                     \/ Len(r.cmd) = 2 /\ r.cmd[1] = "DEL" /\ r.cmd[2] \notin E
         IN  (IF keep THEN <<r>> ELSE <<>>) \o FilterCommands(Tail(recs), E)

\* The bytes of a record cut short (a torn write): they decode to no
\* command, Decode returns io.ErrUnexpectedEOF.
Torn == <<>>

\* How many records of f one gob Decoder reads before it fails.  Every
\* Encoder opens its stream with the type definition of []interface{};
\* the Decoder refuses the second one ("duplicate type received"), so it
\* reads the records of the first Encoder only, and it stops at a record
\* that is cut short.
RECURSIVE DecodableLen(_)
DecodableLen(f) ==
    IF f = <<>> THEN 0
    ELSE IF f[1].cmd = Torn THEN 0
    ELSE IF Len(f) = 1 THEN 1
    ELSE IF f[2].cmd = Torn THEN 1
    ELSE IF f[2].enc # f[1].enc THEN 1
    ELSE 1 + DecodableLen(Tail(f))

\* The records of the temporary file, written by one new Encoder.
Reencode(recs) == [i \in DOMAIN recs |-> [recs[i] EXCEPT !.enc = -1]]

\* CleanupAOF: os.CreateTemp, r.file.Seek(0, 0).
CleanupAOF_open ==
    /\ sweep.pc = "open"
    /\ sweep' = [sweep EXCEPT !.pc = "compact", !.temp = <<>>, !.offset = 0,
                              !.startEid = hist.nEnq]
    /\ hist' = [hist EXCEPT !.owedFrom = IF hist.compactions = 0
                                         THEN hist.nEnq - Len(queue)
                                         ELSE @]
    /\ UNCHANGED <<now, data, slots, index, queue, file, encOpen, cl, wheel,
                   tickers>>

\* CleanupAOF: the Decoder's buffered reader fills from r.file at the
\* descriptor's offset with the next n records (n depends on their sizes),
\* and the loop copies them.  A record that does not decode ends CleanupAOF
\* with the error: nothing is renamed.
CleanupAOF_read ==
    /\ sweep.pc = "compact"
    /\ sweep.offset < Len(file)
    /\ \E n \in 1..(Len(file) - sweep.offset) :
          LET to == sweep.offset + n
              ok == to <= DecodableLen(file)
          IN  sweep' = IF ok
                       THEN [sweep EXCEPT
                               !.offset = to,
                               !.temp = @ \o FilterCommands(
                                           SubSeq(file, sweep.offset + 1, to),
                                           KeySet(sweep.expiredKeys))]
                       ELSE IdleSweep
    /\ UNCHANGED <<now, data, slots, index, queue, file, encOpen, cl, wheel,
                   tickers, hist>>

\* CleanupAOF at io.EOF: r.file.Close, os.Remove, os.Rename of the
\* temporary file, os.OpenFile, r.aofWriter.file = r.file.  The writer's
\* encoder keeps the closed file.
CleanupAOF_rename ==
    /\ sweep.pc = "compact"
    /\ sweep.offset >= Len(file)
    /\ file' = Reencode(sweep.temp)
    /\ encOpen' = FALSE
    /\ sweep' = IdleSweep
    /\ hist' = [hist EXCEPT !.compactions = @ + 1]
    /\ UNCHANGED <<now, data, slots, index, queue, cl, wheel, tickers>>

----------------------------------------------------------------------------
(* A new process: NewCacheRepo, NewGoCacheUsecase, loadFromDisk.           *)

\* A test that lets in a record that expires in the very second of the
\* replay.
LoadLiveLate(e, t) == e = 0 \/ t <= e

\* loadFromDisk's test of a SET record: expiresAt == 0 || now < expiresAt.
LoadLive(e, t) == e = 0 \/ t < e

\* loadFromDisk's handling of one decoded command at time t.
LoadCommand(st, cmd, t) ==
    IF Len(cmd) = 4 /\ cmd[1] = "SET"
    THEN IF LoadLive(cmd[4], t)
         THEN [Data  |-> MapStore(st.Data, cmd[2], CacheItem(cmd[3], cmd[4])),
               slots |-> Add(st.slots, 0, cmd[2], 0, t)]
         ELSE st
    ELSE IF Len(cmd) = 2 /\ cmd[1] = "DEL"
    THEN [st EXCEPT !.Data = MapDelete(st.Data, cmd[2])]
    ELSE st

RECURSIVE LoadFold(_, _, _)
LoadFold(recs, st, t) ==
    IF recs = <<>> THEN st
    ELSE LoadFold(Tail(recs), LoadCommand(st, Head(recs).cmd, t), t)

\* loadFromDisk: the commands the Decoder reads, applied in order to the
\* empty shards and the new wheel.
loadFromDisk(f, t) ==
    LoadFold(SubSeq(f, 1, DecodableLen(f)),
             [Data |-> [k \in Keys |-> NoItem], slots |-> EmptySlots], t)

\* The largest number of S, 0 for none.
MaxOf(S) == IF S = {} THEN 0 ELSE CHOOSE x \in S : \A y \in S : y <= x

\* The largest operation number in the records of f.
MaxId(f) == MaxOf({f[i].aid : i \in DOMAIN f} \cup {f[i].eid : i \in DOMAIN f})

\* No caller operation and no record is in flight.
Quiet ==
    /\ queue = <<>>
    /\ \A c \in BagToSet(cl) : c.pc = "get_del"

\* The process ends at any point (a kill, or the runtime's fatal error on
\* a detected concurrent map write) and starts again on the same cache.aof.
Restart ==
    /\ hist.restarts < MaxRestarts
    /\ LET st == loadFromDisk(file, now)
       IN  /\ data' = st.Data
           /\ slots' = st.slots
    /\ index' = 0
    /\ queue' = <<>>
    /\ encOpen' = TRUE
    /\ cl' = EmptyBag
    /\ wheel' = IdleWheel
    /\ sweep' = IdleSweep
    /\ tickers' = [wheel |-> FALSE, sweep |-> FALSE, since |-> 0]
    /\ hist' = [hist EXCEPT !.restarts = @ + 1, !.compactions = 0,
                            !.nApp = MaxId(file), !.nEnq = MaxId(file),
                            !.last = [k \in Keys |-> NoOp],
                            !.recov = IF Quiet THEN hist.last
                                      ELSE [k \in Keys |-> NoOp],
                            !.owedFrom = 0]
    /\ UNCHANGED <<now, file>>

----------------------------------------------------------------------------

Next ==
    \/ \E k \in Keys, v \in Values, d \in TTLs : Set_lock(k, v, d)
    \/ \E c \in BagToSet(cl) : Set_add(c)
    \/ \E c \in BagToSet(cl) : Set_write(c)
    \/ \E k \in Keys : Delete_lock(k)
    \/ \E c \in BagToSet(cl) : Delete_write(c)
    \/ \E k \in Keys : Get_read(k)
    \/ \E c \in BagToSet(cl) : Get_delete(c)
    \/ Clock
    \/ writeLoop
    \/ run_tick
    \/ \E k \in Keys : run_delete(k)
    \/ run_write
    \/ collectExpiredKeys
    \/ cleanupMemory
    \/ CleanupAOF_open
    \/ CleanupAOF_read
    \/ CleanupAOF_rename
    \/ Restart

Spec == Init /\ [][Next]_vars

----------------------------------------------------------------------------
(* Recovery alone: a start on any log of at most MaxLog commands.          *)

\* Records of a log a new process can find.
MaxLog == 2

\* Absolute expiry times a SET record can carry.
LogTimes == 0..(MaxTime + MaxTTL)

Commands ==
    {SetCmd(k, v, e) : k \in Keys, v \in Values, e \in LogTimes}
        \cup {DelCmd(k) : k \in Keys}

\* The logs of one writer: the i-th record is the i-th operation.
Logs ==
    UNION {[1..n -> Commands] : n \in 0..MaxLog}

LogOf(cmds) == [i \in DOMAIN cmds |-> Rec(cmds[i], i, i)]

InitRecovery ==
    /\ now \in StartTime..MaxTime
    /\ \E cmds \in Logs : file = LogOf(cmds)
    /\ data = [k \in Keys |-> NoItem]
    /\ slots = EmptySlots
    /\ index = 0
    /\ queue = <<>>
    /\ encOpen = TRUE
    /\ cl = EmptyBag
    /\ wheel = IdleWheel
    /\ sweep = IdleSweep
    /\ tickers = [wheel |-> FALSE, sweep |-> FALSE, since |-> 0]
    /\ hist = [nApp |-> Len(file), nEnq |-> Len(file), nOps |-> 0,
               restarts |-> 0, compactions |-> 0,
               last |-> [k \in Keys |-> NoOp],
               recov |-> [k \in Keys |-> NoOp],
               owedFrom |-> 0, E |-> <<>>]

NextRecovery == Restart

SpecRecovery == InitRecovery /\ [][NextRecovery]_vars

----------------------------------------------------------------------------
(* Recovery of a damaged log: records that are cut short, and commands     *)
(* that are neither SET nor DEL.                                           *)

\* Records of a damaged log.
MaxReplay == 3

\* A decodable command that loadFromDisk does not know.
Unknown(k) == <<"INCR", k>>

ReplayCommands ==
    {SetCmd(k, v, e) : k \in Keys, v \in Values, e \in {0, MaxTime + 1}}
        \cup {DelCmd(k) : k \in Keys}
        \cup {Unknown(k) : k \in Keys}
        \cup {Torn}

InitReplay ==
    /\ now \in StartTime..MaxTime
    /\ \E n \in 0..MaxReplay : \E cmds \in [1..n -> ReplayCommands] :
          file = LogOf(cmds)
    /\ data = [k \in Keys |-> NoItem]
    /\ slots = EmptySlots
    /\ index = 0
    /\ queue = <<>>
    /\ encOpen = TRUE
    /\ cl = EmptyBag
    /\ wheel = IdleWheel
    /\ sweep = IdleSweep
    /\ tickers = [wheel |-> FALSE, sweep |-> FALSE, since |-> 0]
    /\ hist = [nApp |-> Len(file), nEnq |-> Len(file), nOps |-> 0,
               restarts |-> 0, compactions |-> 0,
               last |-> [k \in Keys |-> NoOp],
               recov |-> [k \in Keys |-> NoOp],
               owedFrom |-> 0, E |-> <<>>]

NextReplay == Restart

SpecReplay == InitReplay /\ [][NextReplay]_vars

----------------------------------------------------------------------------
(* Compaction alone: CleanupAOF called with one list of expired keys, and  *)
(* called again, on any log, with no writer at work.                       *)

\* The commands of such a log.
CompactCommands ==
    {SetCmd(k, v, 0) : k \in Keys, v \in Values}
        \cup {DelCmd(k) : k \in Keys}
        \cup {Unknown(k) : k \in Keys}

\* The log of two processes: the records after the m-th were written by
\* the Encoder of a later process.
LogOfTwo(cmds, m) ==
    [i \in DOMAIN cmds |->
        [Rec(cmds[i], i, i) EXCEPT !.enc = IF i > m THEN 1 ELSE 0]]

\* The lists of expired keys: every subset of the keys in every order.
KeyLists == UNION {Orders(S) : S \in SUBSET Keys}

InitCompaction ==
    /\ now = StartTime
    /\ \E n \in 0..MaxLog : \E cmds \in [1..n -> CompactCommands] :
          \E m \in 0..n : file = LogOfTwo(cmds, m)
    /\ data = [k \in Keys |-> NoItem]
    /\ slots = EmptySlots
    /\ index = 0
    /\ queue = <<>>
    /\ encOpen = TRUE
    /\ cl = EmptyBag
    /\ wheel = IdleWheel
    /\ sweep = IdleSweep
    /\ tickers = [wheel |-> FALSE, sweep |-> FALSE, since |-> 0]
    /\ \E keys \in KeyLists :
          hist = [nApp |-> Len(file), nEnq |-> Len(file), nOps |-> 0,
                  restarts |-> 0, compactions |-> 0,
                  last |-> [k \in Keys |-> NoOp],
                  recov |-> [k \in Keys |-> NoOp],
                  owedFrom |-> 0, E |-> keys]

\* c.repo.CleanupAOF(ctx, expiredKeys) is called, a first and a second
\* time, with the same list.
CleanupAOF_call ==
    /\ sweep.pc = "idle"
    /\ hist.compactions < 2
    /\ sweep' = [IdleSweep EXCEPT !.pc = "open", !.expiredKeys = hist.E]
    /\ UNCHANGED <<now, data, slots, index, queue, file, encOpen, cl, wheel,
                   tickers, hist>>

NextCompaction ==
    \/ CleanupAOF_call
    \/ CleanupAOF_open
    \/ CleanupAOF_read
    \/ CleanupAOF_rename

SpecCompaction == InitCompaction /\ [][NextCompaction]_vars

----------------------------------------------------------------------------
(* Expiry in the background: a process that has started on a log of keys   *)
(* that never expire, its callers' Sets, the wheel, the sweeper and the     *)
(* writer, every task scheduled fairly.                                    *)

\* Records of the log that process starts on.
MaxLoaded == 1

InitExpiry ==
    /\ now = StartTime
    /\ \E n \in 0..MaxLoaded :
          \E cmds \in [1..n -> {SetCmd(k, v, 0) : k \in Keys, v \in {MaxOps}}] :
              file = LogOf(cmds)
    /\ data = loadFromDisk(file, now).Data
    /\ slots = loadFromDisk(file, now).slots
    /\ index = 0
    /\ queue = <<>>
    /\ encOpen = TRUE
    /\ cl = EmptyBag
    /\ wheel = IdleWheel
    /\ sweep = IdleSweep
    /\ tickers = [wheel |-> FALSE, sweep |-> FALSE, since |-> 0]
    /\ hist = [nApp |-> Len(file), nEnq |-> Len(file), nOps |-> 0,
               restarts |-> 0, compactions |-> 0,
               last |-> [k \in Keys |-> NoOp],
               recov |-> [k \in Keys |-> NoOp],
               owedFrom |-> 0, E |-> <<>>]

\* The steps of the wheel's goroutine, of the sweeper's and of a call that
\* is under way.
WheelStep == run_tick \/ (\E k \in Keys : run_delete(k)) \/ run_write

SweeperStep ==
    \/ collectExpiredKeys
    \/ cleanupMemory
    \/ CleanupAOF_open
    \/ CleanupAOF_read
    \/ CleanupAOF_rename

CallStep == \E c \in BagToSet(cl) : Set_add(c) \/ Set_write(c)

NextExpiry ==
    \/ \E k \in Keys, v \in Values, d \in TTLs : Set_lock(k, v, d)
    \/ CallStep
    \/ Clock
    \/ writeLoop
    \/ WheelStep
    \/ SweeperStep

\* The Go scheduler runs every goroutine that can run, and time passes.
FairExpiry ==
    /\ WF_vars(CallStep)
    /\ WF_vars(Clock)
    /\ WF_vars(writeLoop)
    /\ WF_vars(WheelStep)
    /\ WF_vars(SweeperStep)

SpecExpiry == InitExpiry /\ [][NextExpiry]_vars /\ FairExpiry

----------------------------------------------------------------------------
(* Reading the log.                                                        *)

\* The log counting the records already enqueued to the writer.
LogAll == file \o queue

\* The place of the last record for key k in f, 0 when there is none.
LastIdx(f, k) == MaxOf({i \in DOMAIN f : CmdKey(f[i].cmd) = k})

\* The last command for key k in f, <<>> when there is none.
LastCmd(f, k) == IF LastIdx(f, k) = 0 THEN <<>> ELSE f[LastIdx(f, k)].cmd

\* A Set of key k is between its store into the map and its Write.
SetInFlight(k) ==
    \E c \in BagToSet(cl) : c.pc \in {"set_add", "set_write"} /\ c.key = k

\* Operations applied to the map whose record is not enqueued yet.
InFlight ==
    Cardinality({c \in BagToSet(cl) :
                    c.pc \in {"set_add", "set_write", "del_write"}})
        + (IF wheel.pc = "del_write" THEN 1 ELSE 0)

----------------------------------------------------------------------------
(* Claims.                                                                 *)

\* C1: once Set(k, v, d) has returned and no caller has issued a later Set
\* or Delete of k, Get(k) returns v when d = 0 or the time is before the
\* Set's time + d, and NotFound after it (in the very second t0 + d a clock
\* of whole seconds cannot tell, and either answer is taken).
C1_GetAfterSet ==
    \A k \in Keys :
        LET op == hist.last[k]
        IN  (op.kind = "set" /\ op.done) =>
                /\ (op.ttl = 0 \/ now < op.t0 + op.ttl)
                        => Get(data, k, now) = Found(op.value)
                /\ (op.ttl > 0 /\ now > op.t0 + op.ttl)
                        => Get(data, k, now) = NotFound

\* C2: once Delete(k) has returned, Get(k) returns NotFound until a caller
\* issues the next Set(k, ...).
C2_GetAfterDelete ==
    \A k \in Keys :
        (hist.last[k].kind = "del" /\ hist.last[k].done)
            => Get(data, k, now) = NotFound

\* C2's case: Delete(k) has returned for a key that a Set had stored (both
\* records are in the log), and Get(k) answers NotFound.
C2_Witness ==
    \E k \in Keys :
        /\ hist.last[k].kind = "del" /\ hist.last[k].done
        /\ \E i, j \in DOMAIN LogAll :
              /\ i < j
              /\ LogAll[i].cmd[1] = "SET" /\ CmdKey(LogAll[i].cmd) = k
              /\ LogAll[j].cmd = DelCmd(k) /\ LogAll[j].aid = hist.last[k].id
        /\ Get(data, k, now) = NotFound

\* C3: after Sets and Deletes, a drained queue and a restart, Get(k) on the
\* recovered store returns the value of the last Set(k) while that entry is
\* not expired, and NotFound when the last caller operation on k was a
\* Delete (until a caller of the new process touches k).
C3_Reconstructible ==
    \A k \in Keys :
        LET op == hist.recov[k]
        IN  (hist.restarts > 0 /\ hist.last[k].kind = "none") =>
                /\ (op.kind = "set" /\ (op.ttl = 0 \/ now < op.t0 + op.ttl))
                        => Get(data, k, now) = Found(op.value)
                /\ op.kind = "del" => Get(data, k, now) = NotFound

\* C4: after recovery a key is in memory with (value, expires_at) exactly
\* when the last record for it in the log is SET(k, value, expires_at) with
\* expires_at = 0 or expires_at > now; otherwise it is absent.
C4_RecoveryLastWins ==
    hist.restarts > 0 =>
        \A k \in Keys :
            LET cmd == LastCmd(file, k)
            IN  data[k] = IF /\ cmd # <<>>
                             /\ cmd[1] = "SET"
                             /\ (cmd[4] = 0 \/ cmd[4] > now)
                          THEN CacheItem(cmd[3], cmd[4])
                          ELSE NoItem

\* C5: every in-memory entry with expires_at > 0 has a SET record with that
\* key and expires_at in the log (counting the queue; a Set that holds the
\* shard lock and has not reached its Write yet is not counted against it),
\* and no later record for the key follows it.
C5_EntryHasLogRecord ==
    \A k \in Keys :
        (data[k] # NoItem /\ data[k].ExpiresAt > 0 /\ ~SetInFlight(k))
            => /\ LastCmd(LogAll, k) # <<>>
               /\ LastCmd(LogAll, k) =
                    SetCmd(k, data[k].Value, data[k].ExpiresAt)

\* C6: the records of the log (counting the queue) stand in the order they
\* were enqueued, the records of one key in the order their operations were
\* applied to the shard map, and every applied Set or Delete has enqueued
\* exactly one record once it has returned.
C6_LogOrder ==
    /\ \A i, j \in DOMAIN LogAll :
          i < j => /\ LogAll[i].eid < LogAll[j].eid
                   /\ CmdKey(LogAll[i].cmd) = CmdKey(LogAll[j].cmd)
                          => LogAll[i].aid < LogAll[j].aid
    /\ hist.nApp = hist.nEnq + InFlight

\* C6's case: two operations on one key, the first written to the file and
\* the second still queued, and a record of another key between them.
C6_Witness ==
    /\ Len(file) >= 1 /\ Len(queue) >= 1
    /\ \E i \in DOMAIN file, j \in DOMAIN queue :
          /\ CmdKey(file[i].cmd) = CmdKey(queue[j].cmd)
          /\ file[i].aid < queue[j].aid
    /\ \E i, j \in DOMAIN LogAll : CmdKey(LogAll[i].cmd) # CmdKey(LogAll[j].cmd)

\* C7: compaction drains the writer queue before it renames the temporary
\* file (no record enqueued before compaction started is still queued), and
\* no record for an expired key enqueued before compaction started is in
\* the log after it.
C7_CompactionDrains ==
    [][CleanupAOF_rename =>
          /\ \A i \in DOMAIN queue : queue[i].eid > sweep.startEid
          /\ \A j \in DOMAIN file' :
                ~ /\ CmdKey(file'[j].cmd) \in KeySet(sweep.expiredKeys)
                  /\ file'[j].eid <= sweep.startEid]_vars

\* C8: no write is lost across the (first) compaction: once the queue is
\* drained, every record that was still queued when it ran and every record
\* enqueued since is in the log file.
C8_NoWriteLost ==
    (hist.compactions = 1 /\ queue = <<>>) =>
        \A e \in (hist.owedFrom + 1)..hist.nEnq :
            \E j \in DOMAIN file : file[j].eid = e

\* C9: for every key outside the expired set, the last record for it in the
\* log after compaction is its last record in the log before (with the
\* records the writer appended while compaction read).
C9_CompactionPreserves ==
    [][CleanupAOF_rename =>
          \A k \in Keys \ KeySet(sweep.expiredKeys) :
              LastCmd(file', k) = LastCmd(file, k)]_vars

\* C10: a wheel tick that fires for a key whose entry is not expired
\* (expires_at = 0 or in the future) is a no-op: the entry stays and no DEL
\* record is on its way to the log.
C10_TickNoOpOnLive ==
    [][\A k \in Keys :
          (/\ run_delete(k)
           /\ data[k] # NoItem
           /\ (data[k].ExpiresAt = 0 \/ data[k].ExpiresAt > now))
              => data'[k] = data[k] /\ wheel'.pc # "del_write"]_vars

\* The wheel, inside a tick with tw.mutex held, waits for a shard lock
\* that a Set holds while that Set waits for tw.mutex: every key the loop
\* of run has left is in a shard locked by such a Set.
WheelWaitsForSet ==
    /\ wheel.pc = "ticking"
    /\ \A k \in Due(slots, index, wheel.now) :
          \E c \in BagToSet(cl) :
              c.pc = "set_add" /\ getShard(c.key) = getShard(k)

\* C11: a caller inside Set and the wheel tick never wait on each other:
\* in no reachable state does a Set hold a shard lock and wait for the wheel
\* mutex while the tick holds the wheel mutex and waits for that shard lock.
C11_NoDeadlock == ~WheelWaitsForSet

\* C15: the process ends only after shutdown has drained the writer: every
\* record enqueued before the end has been written (the queue is empty),
\* and the sweeper and the wheel tick have come to rest.
C15_ShutdownDrains ==
    [][Restart => /\ queue = <<>>
                  /\ wheel.pc = "idle"
                  /\ sweep.pc = "idle"]_vars

\* C16: a shard's map is mutated only with that shard's write lock held: no
\* caller stands before a delete from the map with only the read lock (so
\* two Gets never delete from one shard's map at the same time).
C16_MutateUnderWriteLock ==
    \A c \in BagToSet(cl) : c.pc # "get_del"

\* C17: the sweeper's evict phase deletes a collected key only if its entry
\* is still expired at delete time: an entry a Set stored after the collect
\* phase, not expired, survives cleanupMemory.
C17_EvictRechecks ==
    [][cleanupMemory =>
          LET k == sweep.expiredKeys[sweep.i]
          IN  (data[k] # NoItem /\ ~CollectExpired(data[k], now))
                  => data'[k] = data[k]]_vars

\* C18: a wheel tick advances index by one modulo the number of slots,
\* index stays in [0, Slots), and when the tick completes (the mutex is
\* released) the current slot is empty.
C18_TickClearsSlot ==
    [][/\ run_tick => /\ index' = (index + 1) % Slots
                      /\ index' \in 0..(Slots - 1)
       /\ ((run_tick \/ run_write) /\ wheel'.pc = "idle")
              => \A k \in Keys : slots'[index'][k] = -1]_vars

\* C19: the writer queue never holds more than its capacity, a record is
\* enqueued exactly when a producer puts it (none is dropped on the way in),
\* and every record the writer dequeues is written to the log file, also
\* after an error on an earlier record.
C19_QueueBoundedWritten ==
    [][/\ Len(queue') <= QueueCap
       /\ writeLoop => \E j \in DOMAIN file' : file'[j].eid = Head(queue).eid]_vars

\* C12: right after recovery no entry of a shard has expires_at > 0 and
\* expires_at <= now, whatever the log holds.
C12_NoExpiredAfterRecovery ==
    [][Restart =>
          \A k \in Keys :
              ~ /\ data'[k] # NoItem
                /\ data'[k].ExpiresAt > 0
                /\ data'[k].ExpiresAt <= now']_vars

\* C12's case: recovery has run on a log that holds a SET whose expiry is
\* already in the past (not put in memory) and a SET of another key whose
\* expiry is still ahead (put in memory).
C12_Witness ==
    /\ hist.restarts > 0
    /\ \E i, j \in DOMAIN file :
          /\ file[i].cmd[1] = "SET" /\ file[j].cmd[1] = "SET"
          /\ CmdKey(file[i].cmd) # CmdKey(file[j].cmd)
          /\ file[i].cmd[4] > 0 /\ file[i].cmd[4] <= now
          /\ data[CmdKey(file[i].cmd)] = NoItem
          /\ file[j].cmd[4] > now
          /\ data[CmdKey(file[j].cmd)] = CacheItem(file[j].cmd[3], file[j].cmd[4])

\* A command recovery recognizes: a SET of four fields or a DEL of two.
Recognized(cmd) ==
    \/ Len(cmd) = 4 /\ cmd[1] = "SET"
    \/ Len(cmd) = 2 /\ cmd[1] = "DEL"

\* The number of records of f before the first one that is cut short or
\* not recognized.
RECURSIVE IntactPrefixLen(_)
IntactPrefixLen(f) ==
    IF f = <<>> THEN 0
    ELSE IF f[1].cmd = Torn \/ ~Recognized(f[1].cmd) THEN 0
    ELSE 1 + IntactPrefixLen(Tail(f))

\* C13: recovery ends the replay at the first record that is malformed or
\* not recognized: the recovered map is the replay of the intact records
\* before it, and no record after it is applied.
C13_MalformedEndsReplay ==
    hist.restarts > 0 =>
        data = LoadFold(SubSeq(file, 1, IntactPrefixLen(file)),
                        [Data |-> [k \in Keys |-> NoItem],
                         slots |-> EmptySlots], now).Data

\* C14: compaction is idempotent: a second CleanupAOF with the same expired
\* keys and no write in between leaves the log as the first one left it.
C14_CompactionIdempotent ==
    [][(CleanupAOF_rename /\ hist.compactions >= 1) => file' = file]_vars

\* C14's case: two compactions with the same non-empty list have run, the
\* first removed records and kept others.
C14_Witness ==
    /\ hist.compactions = 2
    /\ hist.E # <<>>
    /\ file # <<>>
    /\ Len(file) < hist.nEnq

\* The entry of k is in the map past its expiry time.
Expired(k) ==
    /\ data[k] # NoItem
    /\ data[k].ExpiresAt > 0
    /\ now > data[k].ExpiresAt

\* C20: with the wheel and the sweeper scheduled fairly, an entry that is
\* in the map past its expiry time is eventually gone from it (removed, or
\* replaced by a caller), without any Get.
C20_ExpiredEventuallyRemoved ==
    \A k \in Keys : Expired(k) ~> ~Expired(k)

====
